---- MODULE Spec2Model ----
(***************************************************************************)
(* Book catalogue REST API (express + hosted relational store).            *)
(*                                                                         *)
(* The model covers the two routes that carry logic:                       *)
(*   POST /books/:id/comments  (cap of 20 comments per book)               *)
(*   POST /books/:id/rate      (running vote count and running mean)       *)
(* Every `await supabase...` of a handler is one atomic store step; the    *)
(* steps of concurrently running handlers interleave freely.  A store call *)
(* may fail (it then returns { error }) within a fault budget.             *)
(***************************************************************************)
EXTENDS Integers, Sequences, FiniteSets, TLC

(***************************************************************************)
(* Bounds of the model.                                                    *)
(***************************************************************************)
NumSlots == 2      \* handler instances that can be in flight together
MaxReqs == 2       \* requests started in one behaviour (concurrent specs)
MaxSeqReqs == 8    \* requests started in one behaviour (sequential spec)
MaxFaults == 1     \* store calls that fail in one behaviour
InitSlack == 1     \* initial comment counts range over 20 - InitSlack .. 20

(***************************************************************************)
(* Program constants.                                                      *)
(***************************************************************************)
MaxComments == 20

Slots == 1..NumSlots
Books == {1, 2}            \* rows of table books
MissingBook == 3           \* an id no row of books has
BookIds == Books \cup {MissingBook}

(***************************************************************************)
(* IEEE-754 binary64 arithmetic, as far as the rating formula needs it.    *)
(* A non-negative double below 64 is held exactly as an integer count of   *)
(* units of 2^-57, in four limbs of 16 bits, least significant first.      *)
(* Every operation computes the exact result and rounds it to 53           *)
(* significant bits, ties to even.                                         *)
(***************************************************************************)
LimbBase == 65536
FracTop == 512             \* 1.0 is 512 in the top limb (2^57 / 2^48)

RECURSIVE Pow2(_)
Pow2(k) == IF k = 0 THEN 1 ELSE 2 * Pow2(k - 1)

RECURSIVE BitLen(_)
BitLen(x) == IF x = 0 THEN 0 ELSE 1 + BitLen(x \div 2)

Zero == <<0, 0, 0, 0>>
Null == <<-1, 0, 0, 0>>    \* SQL NULL / JSON null in a numeric column
NaN == <<-2, 0, 0, 0>>     \* the JavaScript number NaN

Carry(a, b, c, d) ==
  LET b1 == b + (a \div LimbBase)
      c1 == c + (b1 \div LimbBase)
      d1 == d + (c1 \div LimbBase)
  IN  <<a % LimbBase, b1 % LimbBase, c1 % LimbBase, d1>>

MulSmall(x, n) == Carry(x[1] * n, x[2] * n, x[3] * n, x[4] * n)

DivSmall(x, d) ==
  LET r4 == x[4] % d
      t3 == r4 * LimbBase + x[3]
      r3 == t3 % d
      t2 == r3 * LimbBase + x[2]
      r2 == t2 % d
      t1 == r2 * LimbBase + x[1]
  IN  [q |-> <<t1 \div d, t2 \div d, t3 \div d, x[4] \div d>>, rem |-> t1 % d]

\* round the exact value x (+ a non-zero fraction of a unit when sticky)
\* to 53 significant bits, ties to even
RoundNearestEven(x, sticky) ==
  LET s == BitLen(x[4]) - 5
  IN  IF s < 1 THEN x
      ELSE LET unit == Pow2(s)
               low  == x[1] % unit
               half == unit \div 2
               odd  == (x[1] \div unit) % 2 = 1
               up   == \/ low > half
                       \/ low = half /\ (sticky \/ odd)
           IN  Carry(x[1] - low + (IF up THEN unit ELSE 0), x[2], x[3], x[4])

FromHalves(h) == <<0, 0, 0, h * (FracTop \div 2)>>   \* the double h / 2
FromInt(i) == FromHalves(2 * i)
FMul(a, n) == RoundNearestEven(MulSmall(a, n), FALSE)
FAdd(a, b) ==
  RoundNearestEven(Carry(a[1] + b[1], a[2] + b[2], a[3] + b[3], a[4] + b[4]), FALSE)
FDiv(a, d) == LET r == DivSmall(a, d) IN RoundNearestEven(r.q, r.rem # 0)

(***************************************************************************)
(* Request bodies.  A rating is what req.body carries: a JSON number (held *)
(* in halves, so v = 5 is 2.5 and v = 8 is 4), nothing at all (undefined)  *)
(* or a non-numeric string.                                                *)
(***************************************************************************)
Number(h) == [k |-> "number", v |-> h]
Whole(i) == Number(2 * i)
Undefined == [k |-> "undefined", v |-> 0]
Text == [k |-> "string", v |-> 0]

IsIntIn1to5(rating) == rating.k = "number" /\ rating.v \in {2, 4, 6, 8, 10}

\* if (rating < 1 || rating > 5), on halves; a comparison with NaN is false
Rejected(rating) == rating.k = "number" /\ (rating.v < 2 \/ rating.v > 10)

\* book.average_rating * book.total_votes   (null converts to 0)
JsMul(a, n) == IF a = NaN THEN NaN ELSE IF a = Null THEN Zero ELSE FMul(a, n)
\* ... + rating   (number + undefined is NaN; number + string is a string,
\* which the division that follows turns into NaN)
JsAdd(x, rating) ==
  IF x = NaN \/ rating.k # "number" THEN NaN ELSE FAdd(x, FromHalves(rating.v))
\* ... / newTotalVotes
JsDiv(x, n) == IF x = NaN THEN NaN ELSE FDiv(x, n)

\* the request body of update(): JSON has no NaN, it is sent as null
Serialize(x) == IF x = NaN THEN Null ELSE x

(***************************************************************************)
(* State.                                                                  *)
(***************************************************************************)
VARIABLES
  comments,        \* table comments: set of [id, book_id, created_at]
  nextId,          \* next serial id of table comments
  clock,           \* the store's now(), source of created_at
  total_votes,     \* books.total_votes, per book
  average_rating,  \* books.average_rating, per book
  req,             \* per handler instance: its locals and position
  gh,              \* per handler instance: history of the running request
  started,         \* requests started so far
  faults,          \* store calls that failed so far
  okCount,         \* per book: rate requests answered 200
  okSum2,          \* per book: twice the sum of their ratings
  ver,             \* per book: successful writes of the rating fields
  lastWriter,      \* per book: slot of the last successful write
  tainted,         \* a rating that is not an integer in 1..5 reached the store
  submitted,       \* per book: the ratings (in halves) that passed the range
                   \* check, in ascending order
  db               \* json-server variant: per book, the array book.comments

vars == <<comments, nextId, clock, total_votes, average_rating, req, gh,
          started, faults, okCount, okSum2, ver, lastWriter, tainted,
          submitted, db>>

storeVars == <<comments, nextId, total_votes, average_rating>>
rateGhost == <<okCount, okSum2, ver, lastWriter, tainted, submitted>>

NoBook == [total_votes |-> 0, average_rating |-> Zero]

IdleReq ==
  [op |-> "none", pc |-> "idle", bookId |-> 0, commentId |-> 0,
   comment_text |-> 0, rating |-> Undefined,
   oldestComment |-> 0, book |-> NoBook, status |-> 0]

IdleGh ==
  [alone |-> FALSE, soleOnBook |-> FALSE, failed |-> 0, afterFail |-> FALSE, pre |-> {},
   newId |-> 0, over |-> FALSE, evicted |-> {}, evictedEarliest |-> FALSE,
   evictedOldest |-> FALSE,
   reads |-> 0, inserts |-> 0, deletes |-> 0, updates |-> 0,
   readVer |-> 0, preVotes |-> NoBook]

CommentsOf(b) == {c \in comments : c.book_id = b}

InFlight(r) == req[r].pc \notin {"idle", "done"}
Quiet == \A r \in Slots : ~InFlight(r)

\* .order('created_at', { ascending: true }) then comments[0]: a row with
\* the least created_at; rows with equal created_at come in any order
First_Descending(S) == {c \in S : \A d \in S : c.created_at >= d.created_at}
First(S) == {c \in S : \A d \in S : c.created_at <= d.created_at}

\* the oldest row: least created_at, ties broken by insertion order (id)
Oldest(S) ==
  {c \in S : \A d \in S : \/ c.created_at < d.created_at
                          \/ c.created_at = d.created_at /\ c.id <= d.id}

\* comments.length > 20
OverCap_AtCap(n) == n >= MaxComments
OverCap(n) == n > MaxComments

\* .eq('id', bookId).single() yields a row: !book is false
BookExists_Always(b) == TRUE
BookExists(b) == b \in Books

(***************************************************************************)
(* A store call either succeeds or returns an error.                       *)
(***************************************************************************)
CallOk == faults' = faults
CallFails == faults < MaxFaults /\ faults' = faults + 1

\* bookkeeping of one store call of slot r: kind is the counter it bumps
Called(g, kind, ok) ==
  [g EXCEPT ![kind] = @ + 1,
            !.afterFail = @ \/ g.failed > 0,
            !.failed = IF ok THEN @ ELSE @ + 1]

\* a request starts in slot r: whoever else is or was running is no longer
\* alone, nor is r unless every other slot is at rest
StartGh(r, b, pre, votes) ==
  [s \in Slots |->
     IF s = r
       THEN [IdleGh EXCEPT !.alone = \A o \in Slots \ {r} : ~InFlight(o),
                           !.soleOnBook = \A o \in Slots \ {r} :
                                            InFlight(o) => req[o].bookId # b,
                           !.pre = pre, !.preVotes = votes]
       ELSE [gh[s] EXCEPT !.alone = FALSE,
                          !.soleOnBook = @ /\ req[s].bookId # b]]

\* q with v added, q being kept in ascending order
Insert(q, v) ==
  LET k == Cardinality({i \in DOMAIN q : q[i] <= v})
  IN  SubSeq(q, 1, k) \o <<v>> \o SubSeq(q, k + 1, Len(q))

BookRow(b) ==
  IF b \in Books
    THEN [total_votes |-> total_votes[b], average_rating |-> average_rating[b]]
    ELSE NoBook

(***************************************************************************)
(* POST /books/:id/comments                                                *)
(***************************************************************************)
\* A request arrives.  created_at is the store's now() at the insert: the
\* clock moves on with every arrival, so a row inserted by a request that
\* arrived after another row was inserted is strictly younger, while the
\* inserts of requests that overlap may get the same created_at.
\* The comment text of a request is a label no other comment carries.
AddCommentArrive(r, b) ==
  /\ ~InFlight(r)
  /\ \A s \in Slots : s < r => InFlight(s)
  /\ req' = [req EXCEPT ![r] = [IdleReq EXCEPT !.op = "addComment",
                                                !.pc = "lookup", !.bookId = b,
                                                !.comment_text = clock + 1]]
  /\ gh' = StartGh(r, b, CommentsOf(b), BookRow(b))
  /\ clock' = clock + 1
  /\ started' = started + 1
  /\ UNCHANGED <<storeVars, faults, rateGhost>>

AddCommentStart(r, b) == AddCommentArrive(r, b) /\ UNCHANGED db

\* 1. Ensure the book exists
AddCommentLookup(r) ==
  /\ req[r].op = "addComment" /\ req[r].pc = "lookup"
  /\ \/ /\ CallOk
        /\ gh' = [gh EXCEPT ![r] = Called(@, "reads", TRUE)]
        /\ IF BookExists(req[r].bookId)
             THEN req' = [req EXCEPT ![r].pc = "insert"]
             ELSE req' = [req EXCEPT ![r].pc = "done", ![r].status = 404]
     \/ /\ CallFails
        /\ gh' = [gh EXCEPT ![r] = Called(@, "reads", FALSE)]
        /\ req' = [req EXCEPT ![r].pc = "done", ![r].status = 404]
  /\ UNCHANGED <<storeVars, clock, started, rateGhost, db>>

\* 2. Insert the new comment
AddCommentInsert(r) ==
  /\ req[r].op = "addComment" /\ req[r].pc = "insert"
  /\ \/ /\ CallOk
        /\ comments' = comments \cup
             {[id |-> nextId, book_id |-> req[r].bookId,
               comment_text |-> req[r].comment_text, created_at |-> clock]}
        /\ nextId' = nextId + 1
        /\ gh' = [gh EXCEPT ![r] =
                    [Called(@, "inserts", TRUE) EXCEPT
                       !.newId = nextId,
                       !.over = OverCap(Cardinality(CommentsOf(req[r].bookId)) + 1)]]
        /\ req' = [req EXCEPT ![r].pc = "list"]
     \/ /\ CallFails
        /\ gh' = [gh EXCEPT ![r] = Called(@, "inserts", FALSE)]
        /\ req' = [req EXCEPT ![r].pc = "done", ![r].status = 500]
        /\ UNCHANGED <<comments, nextId>>
  /\ UNCHANGED <<clock, total_votes, average_rating, started, rateGhost, db>>

\* from('comments').select('*').eq('book_id', bookId)
ListComments_AllBooks(b) == comments
ListComments(b) == CommentsOf(b)

\* 3. Get all comments (order oldest first); 4. if > 20, pick comments[0]
AddCommentList(r) ==
  /\ req[r].op = "addComment" /\ req[r].pc = "list"
  /\ \/ /\ CallOk
        /\ gh' = [gh EXCEPT ![r] = Called(@, "reads", TRUE)]
        /\ LET rows == ListComments(req[r].bookId)
           IN  IF OverCap(Cardinality(rows))
                 THEN \E oldestComment \in First(rows) :
                        req' = [req EXCEPT ![r].pc = "delete",
                                           ![r].oldestComment = oldestComment.id]
                 ELSE req' = [req EXCEPT ![r].pc = "reread"]
     \/ /\ CallFails
        /\ gh' = [gh EXCEPT ![r] = Called(@, "reads", FALSE)]
        /\ req' = [req EXCEPT ![r].pc = "done", ![r].status = 500]
  /\ UNCHANGED <<storeVars, clock, started, rateGhost, db>>

\* 4. delete().eq('id', oldestComment.id): the result is not looked at
AddCommentDelete_Loop(r) ==
  /\ req[r].op = "addComment" /\ req[r].pc = "delete"
  /\ CallOk
  /\ comments' = {c \in comments : c.id # req[r].oldestComment}
  /\ gh' = [gh EXCEPT ![r] = Called(@, "deletes", TRUE)]
  /\ req' = [req EXCEPT ![r].pc = "list"]
  /\ UNCHANGED <<nextId, clock, total_votes, average_rating, started, rateGhost, db>>
AddCommentDelete(r) ==
  /\ req[r].op = "addComment" /\ req[r].pc = "delete"
  /\ LET gone == {c \in comments : c.id = req[r].oldestComment}
     IN  \/ /\ CallOk
            /\ comments' = comments \ gone
            /\ gh' = [gh EXCEPT ![r] =
                        [Called(@, "deletes", TRUE) EXCEPT
                           !.evicted = gone,
                           !.evictedEarliest =
                              gone \subseteq First(CommentsOf(req[r].bookId)),
                           !.evictedOldest =
                              gone \subseteq Oldest(CommentsOf(req[r].bookId))]]
         \/ /\ CallFails
            /\ comments' = comments
            /\ gh' = [gh EXCEPT ![r] = Called(@, "deletes", FALSE)]
  /\ req' = [req EXCEPT ![r].pc = "reread"]
  /\ UNCHANGED <<nextId, clock, total_votes, average_rating, started, rateGhost, db>>

\* 5. Return the updated book with new comments
AddCommentReread(r) ==
  /\ req[r].op = "addComment" /\ req[r].pc = "reread"
  /\ \/ /\ CallOk
        /\ gh' = [gh EXCEPT ![r] = Called(@, "reads", TRUE)]
        /\ req' = [req EXCEPT ![r].pc = "done", ![r].status = 201]
     \/ /\ CallFails
        /\ gh' = [gh EXCEPT ![r] = Called(@, "reads", FALSE)]
        /\ req' = [req EXCEPT ![r].pc = "done", ![r].status = 500]
  /\ UNCHANGED <<storeVars, clock, started, rateGhost, db>>

(***************************************************************************)
(* POST /books/:id/rate                                                    *)
(***************************************************************************)
\* the row the new values are computed from: the one read at step 1
RowForUpdate_Fresh(r) == BookRow(req[r].bookId)
RowForUpdate(r) == req[r].book

\* const newTotalVotes = book.total_votes + 1
NewTotalVotes_Twice(book) == book.total_votes + 1 + 1
NewTotalVotes(book) == book.total_votes + 1

\* const newAverageRating =
\*   (book.average_rating * book.total_votes + rating) / newTotalVotes
NewAverageRating_Unweighted(book, rating) ==
  JsDiv(JsAdd(JsMul(book.average_rating, 1), rating), 2)
NewAverageRating(book, rating) ==
  JsDiv(JsAdd(JsMul(book.average_rating, book.total_votes), rating),
        NewTotalVotes(book))

\* the handler up to its first await: the range check on rating
RateArrive(r, b, rating) ==
  /\ ~InFlight(r)
  /\ \A s \in Slots : s < r => InFlight(s)
  /\ req' = [req EXCEPT ![r] =
               IF Rejected(rating)
                 THEN [IdleReq EXCEPT !.op = "rateBook", !.pc = "done",
                                      !.bookId = b, !.rating = rating,
                                      !.status = 400]
                 ELSE [IdleReq EXCEPT !.op = "rateBook", !.pc = "fetch",
                                      !.bookId = b, !.rating = rating]]
  /\ gh' = StartGh(r, b, CommentsOf(b), BookRow(b))
  /\ started' = started + 1
  /\ tainted' = (tainted \/ (~Rejected(rating) /\ ~IsIntIn1to5(rating)))
  /\ UNCHANGED <<storeVars, clock, faults, okCount, okSum2, ver, lastWriter, db>>

\* the same, the rating being recorded among those submitted
RateStart(r, b, rating) ==
  /\ RateArrive(r, b, rating)
  /\ submitted' = IF ~Rejected(rating) /\ b \in Books
                    THEN [submitted EXCEPT ![b] = Insert(@, rating.v)]
                    ELSE submitted

\* 1. Ensure the book exists (and read its rating fields)
RateFetch(r) ==
  /\ req[r].op = "rateBook" /\ req[r].pc = "fetch"
  /\ \/ /\ CallOk
        /\ IF BookExists(req[r].bookId)
             THEN /\ req' = [req EXCEPT ![r].pc = "update",
                                        ![r].book = BookRow(req[r].bookId)]
                  /\ gh' = [gh EXCEPT ![r] =
                              [Called(@, "reads", TRUE) EXCEPT
                                 !.readVer = ver[req[r].bookId]]]
             ELSE /\ req' = [req EXCEPT ![r].pc = "done", ![r].status = 404]
                  /\ gh' = [gh EXCEPT ![r] = Called(@, "reads", TRUE)]
     \/ /\ CallFails
        /\ gh' = [gh EXCEPT ![r] = Called(@, "reads", FALSE)]
        /\ req' = [req EXCEPT ![r].pc = "done", ![r].status = 404]
  /\ UNCHANGED <<storeVars, clock, started, rateGhost, db>>

\* 2. Calculate new rating values; 3. Update the book's rating
RateUpdate_VotesOnly(r) ==
  /\ req[r].op = "rateBook" /\ req[r].pc = "update"
  /\ CallOk
  /\ total_votes' = [total_votes EXCEPT
                       ![req[r].bookId] = NewTotalVotes(RowForUpdate(r))]
  /\ ver' = [ver EXCEPT ![req[r].bookId] = @ + 1]
  /\ lastWriter' = [lastWriter EXCEPT ![req[r].bookId] = r]
  /\ gh' = [gh EXCEPT ![r] = Called(@, "updates", TRUE)]
  /\ req' = [req EXCEPT ![r].pc = "reread"]
  /\ UNCHANGED <<comments, nextId, clock, started, okCount, okSum2, tainted,
                 submitted, db, average_rating>>
RateUpdate(r) ==
  /\ req[r].op = "rateBook" /\ req[r].pc = "update"
  /\ LET b == req[r].bookId
         book == RowForUpdate(r)
     IN  \/ /\ CallOk
            /\ total_votes' = [total_votes EXCEPT ![b] = NewTotalVotes(book)]
            /\ average_rating' =
                 [average_rating EXCEPT
                    ![b] = Serialize(NewAverageRating(book, req[r].rating))]
            /\ ver' = [ver EXCEPT ![b] = @ + 1]
            /\ lastWriter' = [lastWriter EXCEPT ![b] = r]
            /\ gh' = [gh EXCEPT ![r] = Called(@, "updates", TRUE)]
            /\ req' = [req EXCEPT ![r].pc = "reread"]
         \/ /\ CallFails
            /\ gh' = [gh EXCEPT ![r] = Called(@, "updates", FALSE)]
            /\ req' = [req EXCEPT ![r].pc = "done", ![r].status = 500]
            /\ UNCHANGED <<total_votes, average_rating, ver, lastWriter>>
  /\ UNCHANGED <<comments, nextId, clock, started, okCount, okSum2, tainted,
                 submitted, db>>

\* 4. Fetch and return the updated book details
RateReread(r) ==
  /\ req[r].op = "rateBook" /\ req[r].pc = "reread"
  /\ LET b == req[r].bookId
     IN  \/ /\ CallOk
            /\ gh' = [gh EXCEPT ![r] = Called(@, "reads", TRUE)]
            /\ req' = [req EXCEPT ![r].pc = "done", ![r].status = 200]
            /\ okCount' = [okCount EXCEPT ![b] = @ + 1]
            /\ okSum2' = [okSum2 EXCEPT ![b] = @ + req[r].rating.v]
         \/ /\ CallFails
            /\ gh' = [gh EXCEPT ![r] = Called(@, "reads", FALSE)]
            /\ req' = [req EXCEPT ![r].pc = "done", ![r].status = 500]
            /\ UNCHANGED <<okCount, okSum2>>
  /\ UNCHANGED <<storeVars, clock, started, ver, lastWriter, tainted, submitted,
                 db>>

(***************************************************************************)
(* DELETE /comments/:id                                                    *)
(***************************************************************************)
\* the book a comment belongs to, 0 if there is no such comment
BookOfComment(id) ==
  IF \E c \in comments : c.id = id
    THEN (CHOOSE c \in comments : c.id = id).book_id
    ELSE 0

\* const commentId = parseInt(req.params.id, 10)
DeleteCommentStart(r, id) ==
  /\ ~InFlight(r)
  /\ \A s \in Slots : s < r => InFlight(s)
  /\ req' = [req EXCEPT ![r] = [IdleReq EXCEPT !.op = "deleteComment",
                                                !.pc = "fetch",
                                                !.commentId = id]]
  /\ gh' = StartGh(r, BookOfComment(id), CommentsOf(BookOfComment(id)), NoBook)
  /\ started' = started + 1
  /\ UNCHANGED <<storeVars, clock, faults, rateGhost, db>>

\* 1. Check that the comment exists
DeleteCommentFetch(r) ==
  /\ req[r].op = "deleteComment" /\ req[r].pc = "fetch"
  /\ \/ /\ CallOk
        /\ gh' = [gh EXCEPT ![r] = Called(@, "reads", TRUE)]
        /\ IF \E c \in comments : c.id = req[r].commentId
             THEN req' = [req EXCEPT ![r].pc = "remove"]
             ELSE req' = [req EXCEPT ![r].pc = "done", ![r].status = 404]
     \/ /\ CallFails
        /\ gh' = [gh EXCEPT ![r] = Called(@, "reads", FALSE)]
        /\ req' = [req EXCEPT ![r].pc = "done", ![r].status = 404]
  /\ UNCHANGED <<storeVars, clock, started, rateGhost, db>>

\* 2. Delete the comment; 3. answer { success: true }
DeleteCommentRemove(r) ==
  /\ req[r].op = "deleteComment" /\ req[r].pc = "remove"
  /\ \/ /\ CallOk
        /\ comments' = {c \in comments : c.id # req[r].commentId}
        /\ gh' = [gh EXCEPT ![r] = Called(@, "deletes", TRUE)]
        /\ req' = [req EXCEPT ![r].pc = "done", ![r].status = 200]
     \/ /\ CallFails
        /\ gh' = [gh EXCEPT ![r] = Called(@, "deletes", FALSE)]
        /\ req' = [req EXCEPT ![r].pc = "done", ![r].status = 500]
        /\ UNCHANGED comments
  /\ UNCHANGED <<nextId, clock, total_votes, average_rating, started, rateGhost, db>>

(***************************************************************************)
(* The json-server variant of POST /books/:id/comments.  The handler has   *)
(* no await: it runs from the lookup to the write in one step.             *)
(***************************************************************************)
\* if (book.comments.length > 20)
MemOverCap(n) == n > MaxComments

\* find the book; push(comment); shift() if over the cap; write
MemAddComment(b, comment) ==
  db' = IF b \in Books
          THEN [db EXCEPT ![b] =
                  LET pushed == Append(@, comment)
                  IN  IF MemOverCap(Len(pushed)) THEN Tail(pushed) ELSE pushed]
          ELSE db

(***************************************************************************)
(* Initial states: book 1 holds c0 comments inserted one after another     *)
(* (ids and timestamps 1..c0); with tie, the first two share a timestamp,  *)
(* as two overlapping inserts leave them.  Book 2 has no comment.  No vote *)
(* has been cast.                                                          *)
(***************************************************************************)
InitWith(counts, ties) ==
  /\ \E c0 \in counts, tie \in ties :
       /\ comments = {[id |-> i, book_id |-> 1, comment_text |-> i,
                       created_at |-> IF tie /\ i = 2 THEN 1 ELSE i] : i \in 1..c0}
       /\ db = [b \in Books |-> IF b = 1 THEN [i \in 1..c0 |-> i] ELSE <<>>]
       /\ nextId = c0 + 1
       /\ clock = c0
  /\ total_votes = [b \in Books |-> 0]
  /\ average_rating = [b \in Books |-> Zero]
  /\ req = [r \in Slots |-> IdleReq]
  /\ gh = [r \in Slots |-> IdleGh]
  /\ started = 0
  /\ faults = 0
  /\ okCount = [b \in Books |-> 0]
  /\ okSum2 = [b \in Books |-> 0]
  /\ ver = [b \in Books |-> 0]
  /\ lastWriter = [b \in Books |-> 0]
  /\ tainted = FALSE
  /\ submitted = [b \in Books |-> <<>>]

NearCap == (MaxComments - InitSlack)..MaxComments

RatingInputs ==
  {Whole(0), Whole(2), Whole(4), Whole(6), Number(5), Undefined, Text}
ValidRatings == {Whole(i) : i \in 1..5}

(***************************************************************************)
(* Specification of the comment route: requests on book 1 and on a missing *)
(* book, at most NumSlots at a time.                                       *)
(***************************************************************************)
InitComments == InitWith({0} \cup NearCap, BOOLEAN)

NextComments ==
  \/ \E r \in Slots, b \in {1, MissingBook} :
       started < MaxReqs /\ AddCommentStart(r, b)
  \/ \E r \in Slots : AddCommentLookup(r)
  \/ \E r \in Slots : AddCommentInsert(r)
  \/ \E r \in Slots : AddCommentList(r)
  \/ \E r \in Slots : AddCommentDelete(r)
  \/ \E r \in Slots : AddCommentReread(r)

SpecComments == InitComments /\ [][NextComments]_vars

(***************************************************************************)
(* Specification of a burst on the comment route: book 1 holds 20 comments *)
(* and one request more than MaxReqs is started, so that a request can     *)
(* follow MaxReqs overlapping ones.                                        *)
(***************************************************************************)
InitBurst == InitWith({MaxComments}, {FALSE})

NextBurst ==
  \/ \E r \in Slots :
       started < MaxReqs + 1 /\ AddCommentStart(r, 1)
  \/ \E r \in Slots : AddCommentLookup(r)
  \/ \E r \in Slots : AddCommentInsert(r)
  \/ \E r \in Slots : AddCommentList(r)
  \/ \E r \in Slots : AddCommentDelete(r)
  \/ \E r \in Slots : AddCommentReread(r)

SpecBurst == InitBurst /\ [][NextBurst]_vars

(***************************************************************************)
(* Specification of the rating route: requests on book 1 and on a missing  *)
(* book, with any request body, at most NumSlots at a time.                *)
(***************************************************************************)
InitRate == InitWith({0}, {FALSE})

NextRate ==
  \/ \E r \in Slots, b \in {1, MissingBook}, rating \in RatingInputs :
       started < MaxReqs /\ RateStart(r, b, rating)
  \/ \E r \in Slots : RateFetch(r)
  \/ \E r \in Slots : RateUpdate(r)
  \/ \E r \in Slots : RateReread(r)

SpecRate == InitRate /\ [][NextRate]_vars

(***************************************************************************)
(* Specification of a burst on the rating route: one request more than     *)
(* MaxReqs is started on book 1, all with rating 4, so that a request can  *)
(* stay in flight while others follow one another.                         *)
(***************************************************************************)
NextRateBurst ==
  \/ \E r \in Slots :
       started < MaxReqs + 1 /\ RateStart(r, 1, Whole(4))
  \/ \E r \in Slots : RateFetch(r)
  \/ \E r \in Slots : RateUpdate(r)
  \/ \E r \in Slots : RateReread(r)

SpecRateBurst == InitRate /\ [][NextRateBurst]_vars

(***************************************************************************)
(* Specification of the rating route used one request at a time: a request *)
(* starts only when no other is in flight.  The ratings submitted are not  *)
(* recorded here: okCount and okSum2 tell all about a run of this kind.    *)
(***************************************************************************)
NextSeq ==
  \/ \E r \in Slots, rating \in ValidRatings \cup {Whole(0), Whole(6)} :
       /\ Quiet /\ started < MaxSeqReqs
       /\ RateArrive(r, 1, rating) /\ UNCHANGED submitted
  \/ \E r \in Slots : RateFetch(r)
  \/ \E r \in Slots : RateUpdate(r)
  \/ \E r \in Slots : RateReread(r)

SpecSeq == InitRate /\ [][NextSeq]_vars

(***************************************************************************)
(* Specification of the comment route together with DELETE /comments/:id,  *)
(* on a book that holds MaxComments comments: the two oldest comments and  *)
(* an id that no comment has are deleted.                                  *)
(***************************************************************************)
InitDelete == InitWith({MaxComments}, {FALSE})

DeleteIds == {0, 1, 2}

NextDelete ==
  \/ \E r \in Slots :
       started < MaxReqs /\ AddCommentStart(r, 1)
  \/ \E r \in Slots : AddCommentLookup(r)
  \/ \E r \in Slots : AddCommentInsert(r)
  \/ \E r \in Slots : AddCommentList(r)
  \/ \E r \in Slots : AddCommentDelete(r)
  \/ \E r \in Slots : AddCommentReread(r)
  \/ \E r \in Slots, id \in DeleteIds :
       started < MaxReqs /\ DeleteCommentStart(r, id)
  \/ \E r \in Slots : DeleteCommentFetch(r)
  \/ \E r \in Slots : DeleteCommentRemove(r)

SpecDelete == InitDelete /\ [][NextDelete]_vars

(***************************************************************************)
(* Specification of the two variants of the comment route side by side:    *)
(* each request is sent to both servers, one request after another.        *)
(***************************************************************************)
InitFifo == InitWith({0} \cup NearCap, {FALSE})

NextFifo ==
  \/ \E r \in Slots :
       /\ Quiet /\ started < MaxSeqReqs
       /\ AddCommentArrive(r, 1) /\ MemAddComment(1, clock + 1)
  \/ \E r \in Slots : AddCommentLookup(r)
  \/ \E r \in Slots : AddCommentInsert(r)
  \/ \E r \in Slots : AddCommentList(r)
  \/ \E r \in Slots : AddCommentDelete(r)
  \/ \E r \in Slots : AddCommentReread(r)

SpecFifo == InitFifo /\ [][NextFifo]_vars

(***************************************************************************)
(* Specification of the whole service: both routes, on both books and on a *)
(* missing one.                                                            *)
(***************************************************************************)
Init == InitWith({MaxComments}, {FALSE})

Next ==
  \/ \E r \in Slots, b \in BookIds :
       started < MaxReqs /\ AddCommentStart(r, b)
  \/ \E r \in Slots : AddCommentLookup(r)
  \/ \E r \in Slots : AddCommentInsert(r)
  \/ \E r \in Slots : AddCommentList(r)
  \/ \E r \in Slots : AddCommentDelete(r)
  \/ \E r \in Slots : AddCommentReread(r)
  \/ \E r \in Slots, b \in BookIds, rating \in {Whole(0), Whole(4)} :
       started < MaxReqs /\ RateStart(r, b, rating)
  \/ \E r \in Slots : RateFetch(r)
  \/ \E r \in Slots : RateUpdate(r)
  \/ \E r \in Slots : RateReread(r)

Spec == Init /\ [][Next]_vars

(***************************************************************************)
(* Properties.                                                             *)
(***************************************************************************)
Min(a, b) == IF a <= b THEN a ELSE b
Count(b) == Cardinality(CommentsOf(b))
Mean(sum2, n) == FDiv(FromHalves(sum2), n)     \* the double (sum2 / 2) / n

DoneAdd(r) == req[r].op = "addComment" /\ req[r].pc = "done"
DoneRate(r) == req[r].op = "rateBook" /\ req[r].pc = "done"

\* C1: the number of comments attached to any book is at most 20.  The claim
\* is for every reachable state; it is stated here for the states in which it
\* asks least: no request is in flight and no store call has failed.
CommentCap ==
  (Quiet /\ faults = 0) => \A b \in Books : Count(b) <= MaxComments

\* C2: total_votes is the number of ratings whose request returned success and
\* average_rating * total_votes is their sum, average_rating their mean.  The
\* claim is for every state with no request between its read and its write;
\* it is stated here for the states with no request in flight at all, no
\* failed store call and only integer ratings in 1..5 accepted so far.
RatingInvariant ==
  (Quiet /\ faults = 0 /\ ~tainted) =>
    \A b \in Books :
      /\ total_votes[b] = okCount[b]
      /\ okCount[b] > 0 =>
           /\ FMul(average_rating[b], total_votes[b]) = FromHalves(okSum2[b])
           /\ average_rating[b] = Mean(okSum2[b], okCount[b])

\* C3: an addComment that ran alone, without store failure, on a book holding
\* c <= 20 comments answers 201 and leaves min(c + 1, 20) comments, the new one
\* among them; with c = 20 exactly one earlier comment is gone, one with the
\* earliest created_at, and the other 19 are kept; with c < 20 none is gone.
SequentialAddComment ==
  \A r \in Slots :
    ( /\ DoneAdd(r) /\ req[r].bookId \in Books
      /\ gh[r].alone /\ gh[r].failed = 0
      /\ Cardinality(gh[r].pre) <= MaxComments )
    => LET pre  == gh[r].pre
           post == CommentsOf(req[r].bookId)
           c    == Cardinality(pre)
       IN  /\ req[r].status = 201
           /\ Cardinality(post) = Min(c + 1, MaxComments)
           /\ \E n \in post : n.id = gh[r].newId /\ n \notin pre
           /\ c = MaxComments =>
                /\ \E o \in First(pre) : pre \ post = {o}
                /\ Cardinality(pre \cap post) = MaxComments - 1
           /\ c < MaxComments => pre \subseteq post

SequentialAddCommentWitness ==
  \E r \in Slots :
    /\ DoneAdd(r) /\ gh[r].alone /\ gh[r].failed = 0
    /\ Cardinality(gh[r].pre) = MaxComments
    /\ Count(req[r].bookId) = MaxComments
    /\ Cardinality(gh[r].evicted) = 1

\* C4: every addComment whose insert brought the book above 20 comments makes
\* exactly one comment disappear, one with the earliest created_at of the
\* book.  Stated for two requests on one book whose inserts both brought it
\* above 20 and which were both answered 201, in runs without store failure.
ExactlyOneEviction ==
  \A r1 \in Slots : \A r2 \in Slots \ {r1} :
    ( /\ DoneAdd(r1) /\ DoneAdd(r2) /\ faults = 0
      /\ req[r1].bookId = req[r2].bookId
      /\ req[r1].status = 201 /\ req[r2].status = 201
      /\ gh[r1].over /\ gh[r2].over )
    => /\ Cardinality(gh[r1].evicted) = 1 /\ gh[r1].evictedEarliest
       /\ Cardinality(gh[r2].evicted) = 1 /\ gh[r2].evictedEarliest

\* C5 (as claimed): after k rate requests run one after another on a fresh
\* book, total_votes = k and average_rating = (r1 + ... + rk) / k.
SequentialRate ==
  (Quiet /\ faults = 0) =>
    /\ total_votes[1] = okCount[1]
    /\ okCount[1] > 0 => average_rating[1] = Mean(okSum2[1], okCount[1])

\* C5 (amended): after k rate requests run one after another on a fresh book,
\* total_votes = k, and average_rating = (r1 + ... + rk) / k as long as
\* k <= 7; one rating 5 yields (1, 5), ratings summing to 6 yield (2, 3).
SequentialRateUpTo7 ==
  (Quiet /\ faults = 0) =>
    /\ total_votes[1] = okCount[1]
    /\ (okCount[1] > 0 /\ okCount[1] <= 7) =>
         average_rating[1] = Mean(okSum2[1], okCount[1])
    /\ (okCount[1] = 1 /\ okSum2[1] = 10) => average_rating[1] = FromInt(5)
    /\ (okCount[1] = 2 /\ okSum2[1] = 12) => average_rating[1] = FromInt(3)

SequentialRateWitness ==
  /\ Quiet /\ faults = 0
  /\ okCount[1] = 2 /\ okSum2[1] = 12
  /\ total_votes[1] = 2 /\ average_rating[1] = FromInt(3)

\* C6: a rate request whose rating is not an integer in 1..5 is answered 400
\* without any store call, so no such rating is ever folded into
\* average_rating.
RatingValidation ==
  /\ \A r \in Slots :
       (req[r].op = "rateBook" /\ ~IsIntIn1to5(req[r].rating))
       => /\ req[r].pc = "done" /\ req[r].status = 400
          /\ gh[r].reads = 0 /\ gh[r].updates = 0
          /\ BookRow(req[r].bookId) = gh[r].preVotes
  /\ ~tainted

\* C7 (as claimed): a request on a missing book is answered 404 and issues no
\* insert, update or delete.
MissingBookNotFound ==
  \A r \in Slots :
    (req[r].op # "none" /\ req[r].bookId \notin Books)
    => /\ req[r].pc = "done" => req[r].status = 404
       /\ gh[r].inserts = 0 /\ gh[r].updates = 0 /\ gh[r].deletes = 0

\* C7 (amended): a request on a missing book issues no insert, update or
\* delete; it is answered 404, except a rate request whose rating fails the
\* range check, which is answered 400 before the book is looked up.
MissingBookNoWrite ==
  \A r \in Slots :
    (req[r].op # "none" /\ req[r].bookId \notin Books)
    => /\ req[r].pc = "done" =>
            req[r].status =
              IF req[r].op = "rateBook" /\ Rejected(req[r].rating)
                THEN 400 ELSE 404
       /\ req[r].pc \in {"lookup", "fetch", "done"}
       /\ gh[r].inserts = 0 /\ gh[r].updates = 0 /\ gh[r].deletes = 0
       /\ gh[r].alone => /\ CommentsOf(req[r].bookId) = gh[r].pre
                         /\ BookRow(req[r].bookId) = gh[r].preVotes

MissingBookWitness ==
  /\ \E r \in Slots : DoneAdd(r) /\ req[r].bookId = MissingBook
                      /\ req[r].status = 404 /\ gh[r].failed = 0
  /\ \E r \in Slots : DoneRate(r) /\ req[r].bookId = MissingBook
                      /\ req[r].status = 404 /\ gh[r].failed = 0

\* C8: when two rate requests on a book read the same row (n, a), both are
\* answered 200 and nobody else wrote, total_votes ends at n + 1 and
\* average_rating is (a * n + rating) / (n + 1) for the rating written last.
LostUpdate ==
  \A r1 \in Slots : \A r2 \in Slots \ {r1} :
    ( /\ DoneRate(r1) /\ DoneRate(r2)
      /\ req[r1].status = 200 /\ req[r2].status = 200
      /\ req[r1].bookId = req[r2].bookId
      /\ gh[r1].readVer = gh[r2].readVer
      /\ ver[req[r1].bookId] = gh[r1].readVer + 2
      /\ lastWriter[req[r1].bookId] = r2 )
    => /\ total_votes[req[r1].bookId] = req[r1].book.total_votes + 1
       /\ average_rating[req[r1].bookId] =
            Serialize(NewAverageRating(req[r1].book, req[r2].rating))

LostUpdateWitness ==
  \E r1 \in Slots : \E r2 \in Slots \ {r1} :
    /\ DoneRate(r1) /\ DoneRate(r2)
    /\ req[r1].status = 200 /\ req[r2].status = 200
    /\ req[r1].bookId = 1 /\ req[r2].bookId = 1
    /\ IsIntIn1to5(req[r1].rating) /\ IsIntIn1to5(req[r2].rating)
    /\ req[r1].rating # req[r2].rating
    /\ gh[r1].readVer = gh[r2].readVer
    /\ ver[1] = gh[r1].readVer + 2
    /\ lastWriter[1] = r2
    /\ total_votes[1] = req[r1].book.total_votes + 1
    /\ okCount[1] = total_votes[1] + 1

\* C9: an addComment that starts on a book left with more than 20 comments
\* by earlier requests and runs alone to completion, without store failure,
\* leaves at most 20 comments.
NextCallTrims ==
  \A r \in Slots :
    ( /\ DoneAdd(r) /\ gh[r].alone /\ faults = 0
      /\ Cardinality(gh[r].pre) > MaxComments )
    => Count(req[r].bookId) <= MaxComments

\* C10: once a store call of a request has failed, the request issues no
\* further store call and is not answered with success.
ErrorPropagation ==
  \A r \in Slots :
    gh[r].failed > 0
    => /\ ~gh[r].afterFail
       /\ req[r].pc = "done" /\ req[r].status \notin {200, 201}

\* C11: every store step that changes total_votes or average_rating of a book
\* is the update of one rate request and writes both fields at once, the pair
\* computed from the row that request read; a failed store call writes
\* neither.
PairedStep ==
  \A b \in Books :
    (total_votes'[b] # total_votes[b] \/ average_rating'[b] # average_rating[b])
    => \E r \in Slots :
         /\ req[r].op = "rateBook" /\ req[r].pc = "update"
         /\ req[r].bookId = b /\ req'[r].pc = "reread"
         /\ faults' = faults
         /\ total_votes'[b] = req[r].book.total_votes + 1
         /\ average_rating'[b] =
              Serialize(NewAverageRating(req[r].book, req[r].rating))

PairedUpdate == [][PairedStep]_vars

PairedUpdateWitness ==
  \E r \in Slots :
    /\ req[r].op = "rateBook" /\ req[r].pc = "done" /\ req[r].status = 500
    /\ req[r].bookId = 1 /\ gh[r].updates = 1 /\ gh[r].reads = 2
    /\ total_votes[1] = 1 /\ average_rating[1] = FromHalves(req[r].rating.v)

\* C12: addComment and rateBook answer 404 only when the book does not exist.
NotFoundOnlyIfAbsent ==
  \A r \in Slots :
    (req[r].pc = "done" /\ req[r].status = 404) => req[r].bookId \notin Books

\* C13: the comment an addComment evicts is the oldest of its book, the one
\* inserted first among those that share the earliest created_at.
EvictionTieBreak ==
  \A r \in Slots :
    (req[r].op = "addComment" /\ Cardinality(gh[r].evicted) = 1)
    => gh[r].evictedOldest

\* C15 (as claimed): one addComment request issues at most one insert, one
\* delete and two reads.
StoreCallBudget ==
  \A r \in Slots :
    req[r].op = "addComment"
    => gh[r].inserts <= 1 /\ gh[r].deletes <= 1 /\ gh[r].reads <= 2

\* C15 (amended): one addComment request issues at most one insert, one delete
\* and three reads (book lookup, comment listing, final re-read).
StoreCallBudgetThreeReads ==
  \A r \in Slots :
    req[r].op = "addComment"
    => gh[r].inserts <= 1 /\ gh[r].deletes <= 1 /\ gh[r].reads <= 3

StoreCallBudgetWitness ==
  \E r \in Slots :
    /\ DoneAdd(r) /\ req[r].status = 201
    /\ gh[r].inserts = 1 /\ gh[r].deletes = 1 /\ gh[r].reads = 3

\* C17: no step lowers total_votes of a book.
VotesStep == \A b \in Books : total_votes'[b] >= total_votes[b]

VotesNeverDecrease == [][VotesStep]_vars

\* C16: while only integer ratings in 1..5 were accepted, the stored pair of a
\* book that started at (0, 0) is the count and the mean of some sub-collection
\* of the ratings submitted so far: total_votes is at most their number, and
\* when total_votes > 0 then 1 <= average_rating <= 5.
Leq(a, b) ==
  \/ a[4] < b[4]
  \/ a[4] = b[4] /\ a[3] < b[3]
  \/ a[4] = b[4] /\ a[3] = b[3] /\ a[2] < b[2]
  \/ a[4] = b[4] /\ a[3] = b[3] /\ a[2] = b[2] /\ a[1] <= b[1]

RECURSIVE SumOver(_, _)
SumOver(q, S) ==
  IF S = {} THEN 0
  ELSE LET i == CHOOSE j \in S : TRUE IN q[i] + SumOver(q, S \ {i})

FrameStep ==
  \A r \in Slots :
    req'[r] # req[r] =>
      /\ \A o \in Books \ {req'[r].bookId} :
           /\ CommentsOf(o)' = CommentsOf(o)
           /\ total_votes'[o] = total_votes[o]
           /\ average_rating'[o] = average_rating[o]
      /\ req'[r].op = "addComment" =>
           total_votes' = total_votes /\ average_rating' = average_rating
      /\ req'[r].op = "rateBook" => comments' = comments

Isolated ==
  \A r \in Slots :
    ( /\ req[r].pc = "done" /\ req[r].bookId \in Books
      /\ gh[r].soleOnBook /\ gh[r].failed = 0 )
    => LET b == req[r].bookId
           pre == gh[r].pre
           post == CommentsOf(b)
       IN  /\ (req[r].op = "addComment" /\ Cardinality(pre) <= MaxComments) =>
                /\ req[r].status = 201
                /\ BookRow(b) = gh[r].preVotes
                /\ Cardinality(post) = Min(Cardinality(pre) + 1, MaxComments)
                /\ \E n \in post : n.id = gh[r].newId /\ n \notin pre
                /\ post \ pre = {n \in post : n.id = gh[r].newId}
           /\ (req[r].op = "rateBook" /\ req[r].status # 400) =>
                /\ req[r].status = 200
                /\ post = pre
                /\ total_votes[b] = gh[r].preVotes.total_votes + 1
                /\ average_rating[b] =
                     Serialize(NewAverageRating(gh[r].preVotes, req[r].rating))

FrameIsolation == [][FrameStep]_vars /\ []Isolated

FrameIsolationWitness ==
  \E r1 \in Slots : \E r2 \in Slots \ {r1} :
    /\ DoneAdd(r1) /\ req[r1].bookId = 1 /\ req[r1].status = 201
    /\ DoneRate(r2) /\ req[r2].bookId = 2 /\ req[r2].status = 200
    /\ gh[r1].soleOnBook /\ gh[r2].soleOnBook
    /\ ~gh[r1].alone /\ ~gh[r2].alone
    /\ Cardinality(gh[r1].evicted) = 1
    /\ total_votes[2] = 1 /\ total_votes[1] = 0 /\ Count(2) = 0

\* C14: the eviction delete of addComment removes a comment only while its
\* book holds more than 20 comments, so it never takes a book below the cap.
EvictionStep ==
  \A r \in Slots :
    ( /\ req[r].op = "addComment" /\ req[r].pc = "delete"
      /\ req'[r].pc # "delete" /\ comments' # comments )
    => Count(req[r].bookId) > MaxComments

EvictionOnlyAboveCap == [][EvictionStep]_vars

\* C19: after every request of a run of addComment requests on book 1, sent
\* one after another to both variants with no store failure, the store holds
\* (by created_at) the same comments in the same order as the array of the
\* in-memory variant, namely the last min(k, 20) comments submitted.
StoreOrder(b) ==
  LET S == CommentsOf(b)
      Before(c) == {d \in S : \/ d.created_at < c.created_at
                              \/ d.created_at = c.created_at /\ d.id < c.id}
  IN  [i \in 1..Cardinality(S) |->
         (CHOOSE c \in S : Cardinality(Before(c)) = i - 1).comment_text]

LastSubmitted(k) ==
  LET n == Min(k, MaxComments) IN [i \in 1..n |-> k - n + i]

BoundedFifo ==
  (Quiet /\ faults = 0) =>
    /\ StoreOrder(1) = db[1]
    /\ db[1] = LastSubmitted(clock)

BoundedFifoWitness ==
  /\ Quiet /\ faults = 0 /\ started >= 2
  /\ Count(1) = MaxComments /\ Len(db[1]) = MaxComments
  /\ db[1][1] = 3 /\ db[1][MaxComments] = clock

====
